---- MODULE Spec2Model ----
(***************************************************************************)
(* Model of the Vault secrets-engine facades of mwalto7/vault:            *)
(*   secrets/cubbyhole, secrets/kv/v1 and secrets/kv/v2.                   *)
(*                                                                         *)
(* One facade instance (a *Client) is constructed by NewClient and then    *)
(* driven by a single caller.  Every public method is one action that      *)
(* runs the method from call to return; its arguments, the outcome of      *)
(* api.NewClient and the reply of the LogicalClient (the transport) are    *)
(* chosen by the environment.  The caller then drops the returned values   *)
(* (CallerContinues) and may call again.  Go strings that the code takes   *)
(* apart (paths) are sequences of one-character strings; Go values stored  *)
(* in map[string]interface{} are records tagged with their dynamic type.   *)
(* A second specification, SpecRace, lets two goroutines call the same     *)
(* Client, one access to a field of the Client per step.                   *)
(***************************************************************************)
EXTENDS Integers, Sequences, FiniteSets, TLC

(***************************************************************************)
(* Bounds of the model                                                     *)
(***************************************************************************)
MaxVersion == 1      \* version arguments range over -2 .. MaxVersion, and 12
MaxVersions == 2     \* variadic version lists have at most this length

(***************************************************************************)
(* Strings                                                                 *)
(***************************************************************************)
HasPrefix(s, p) == Len(p) <= Len(s) /\ SubSeq(s, 1, Len(p)) = p

\* strings.Join(elems, "/")
RECURSIVE stringsJoin(_)
stringsJoin(elems) ==
  IF elems = <<>> THEN <<>>
  ELSE IF Len(elems) = 1 THEN elems[1]
  ELSE elems[1] \o <<"/">> \o stringsJoin(Tail(elems))

\* the "/"-separated elements of a string, empty elements included
RECURSIVE splitSlash(_, _)
splitSlash(s, cur) ==
  IF s = <<>> THEN <<cur>>
  ELSE IF Head(s) = "/" THEN <<cur>> \o splitSlash(Tail(s), <<>>)
  ELSE splitSlash(Tail(s), Append(cur, Head(s)))

\* path.Clean: the element stack after processing elems left to right
RECURSIVE cleanElems(_, _, _)
cleanElems(elems, rooted, out) ==
  IF elems = <<>> THEN out
  ELSE LET e == Head(elems)
           rest == Tail(elems)
       IN  IF e = <<>> \/ e = <<".">> THEN cleanElems(rest, rooted, out)
           ELSE IF e = <<".", ".">> THEN
                  IF out # <<>> /\ out[Len(out)] # <<".", ".">>
                    THEN cleanElems(rest, rooted, SubSeq(out, 1, Len(out) - 1))
                  ELSE IF rooted THEN cleanElems(rest, rooted, out)
                  ELSE cleanElems(rest, rooted, Append(out, e))
           ELSE cleanElems(rest, rooted, Append(out, e))

\* path.Clean
Clean(p) ==
  IF p = <<>> THEN <<".">>
  ELSE LET rooted == Head(p) = "/"
           out == stringsJoin(cleanElems(splitSlash(p, <<>>), rooted, <<>>))
       IN  IF rooted THEN <<"/">> \o out
           ELSE IF out = <<>> THEN <<".">> ELSE out

\* path.Join: empty elements before the first non-empty one are dropped,
\* an all-empty argument list gives ""
RECURSIVE pathJoin(_)
pathJoin(elem) ==
  IF elem = <<>> THEN <<>>
  ELSE IF Head(elem) # <<>> THEN Clean(stringsJoin(elem))
  ELSE pathJoin(Tail(elem))


(***************************************************************************)
(* strconv.Itoa                                                            *)
(***************************************************************************)
DigitChar == <<"0", "1", "2", "3", "4", "5", "6", "7", "8", "9">>

RECURSIVE Itoa(_)
Itoa(n) ==
  IF n < 0 THEN <<"-">> \o Itoa(-n)
  ELSE IF n < 10 THEN <<DigitChar[n + 1]>>
  ELSE Itoa(n \div 10) \o <<DigitChar[(n % 10) + 1]>>

(***************************************************************************)
(* Go values held in interface{}: tagged with their dynamic type           *)
(***************************************************************************)
EmptyMap == [k \in {} |-> 0]

VNil == [type |-> "nil", v |-> EmptyMap]
VStr(s) == [type |-> "string", v |-> s]
VInt(n) == [type |-> "int", v |-> n]
VFloat(n) == [type |-> "float64", v |-> n]
VBool(b) == [type |-> "bool", v |-> b]
VMap(m) == [type |-> "map[string]interface{}", v |-> m]
VList(l) == [type |-> "[]interface{}", v |-> l]
VInts(l) == [type |-> "[]int", v |-> l]
VStrings(l) == [type |-> "[]string", v |-> l]
VStruct(t, r) == [type |-> t, v |-> r]

(***************************************************************************)
(* Errors                                                                  *)
(***************************************************************************)
NoErr == [kind |-> "nil", msg |-> "", op |-> "", path |-> <<>>]
ErrorsNew(m) == [kind |-> "errorString", msg |-> m, op |-> "", path |-> <<>>]
PathError(o, p, e) == [kind |-> "PathError", msg |-> e.msg, op |-> o, path |-> p]

ErrEmptyPath == ErrorsNew("cubbyhole: path is empty")
ErrNoSecretData == ErrorsNew("cubbyhole: no secret data")
ErrKV1EmptyPath == ErrorsNew("vault: secret path is empty")
ErrKV2EmptyPath == ErrorsNew("kv2: secret path is empty")
ErrKV2NoVersion == ErrorsNew("kv2: must specify at least one version")
ErrTransport == ErrorsNew("transport: request failed")
ErrNewClient == ErrorsNew("api: cannot create client")
ErrDecode == ErrorsNew("mapstructure: decode error")

(***************************************************************************)
(* The facades' constants and types                                        *)
(***************************************************************************)
cubbyhole_defaultMountPath == <<"/", "c", "u", "b", "b", "y", "h", "o", "l", "e">>
kv1_defaultMountPath == <<"/", "s", "e", "c", "r", "e", "t">>
kv2_defaultMountPath == <<"/", "s", "e", "c", "r", "e", "t">>

SecretConfig == [MaxVersions : 0 .. 1, CASRequired : BOOLEAN, DeleteVersionAfter : 0 .. 1]
ZeroSecretConfig == [MaxVersions |-> 0, CASRequired |-> FALSE, DeleteVersionAfter |-> 0]
ZeroSecretVersion == [CreatedTime |-> 0, DeletionTime |-> 0, Destroyed |-> FALSE, Version |-> 0]
ZeroSecret == [Data |-> VNil, Metadata |-> ZeroSecretVersion]
ZeroSecretMetadata ==
  [CreatedTime |-> 0, CurrentVersion |-> 0, MaxVersions |-> 0, OldestVersion |-> 0,
   UpdatedTime |-> 0, Versions |-> EmptyMap]

\* json.Marshal(cfg) followed by json.Unmarshal into map[string]interface{}:
\* omitempty drops zero fields, JSON numbers come back as float64
SecretConfigToMap(cfg) ==
  LET keys == (IF cfg.MaxVersions # 0 THEN {"max_versions"} ELSE {})
              \cup (IF cfg.CASRequired THEN {"cas_required"} ELSE {})
              \cup (IF cfg.DeleteVersionAfter # 0 THEN {"delete_version_after"} ELSE {})
  IN  [k \in keys |->
         IF k = "max_versions" THEN VFloat(cfg.MaxVersions)
         ELSE IF k = "cas_required" THEN VBool(cfg.CASRequired)
         ELSE VFloat(cfg.DeleteVersionAfter)]

(***************************************************************************)
(* mapstructure.Decode                                                     *)
(***************************************************************************)
\* strings.ToLower on the struct field names used as map keys; every other
\* key of the model is lower case already
LowerTable ==
  [Data |-> "data", Metadata |-> "metadata", Keys |-> "keys",
   CreatedTime |-> "createdtime", DeletionTime |-> "deletiontime",
   Destroyed |-> "destroyed", Version |-> "version",
   MaxVersions |-> "maxversions", CASRequired |-> "casrequired",
   DeleteVersionAfter |-> "deleteversionafter",
   CurrentVersion |-> "currentversion", OldestVersion |-> "oldestversion",
   UpdatedTime |-> "updatedtime", Versions |-> "versions"]

ToLower(k) == IF k \in DOMAIN LowerTable THEN LowerTable[k] ELSE k

\* the map entry a struct field is decoded from: the key named by the field's
\* mapstructure tag (or the field's name), else a key equal to it under
\* case folding
FieldValue(m, name) ==
  IF name \in DOMAIN m THEN [found |-> TRUE, val |-> m[name]]
  ELSE LET ks == {k \in DOMAIN m : ToLower(k) = ToLower(name)}
       IN  IF ks = {} THEN [found |-> FALSE, val |-> VNil]
           ELSE [found |-> TRUE, val |-> m[CHOOSE k \in ks : TRUE]]

Decoded(x) == [val |-> x, ok |-> TRUE]
DecodeFailed(zero) == [val |-> zero, ok |-> FALSE]

decodeInt(f) ==
  IF ~f.found \/ f.val.type = "nil" THEN Decoded(0)
  ELSE IF f.val.type \in {"int", "float64"} THEN Decoded(f.val.v)
  ELSE DecodeFailed(0)

decodeBool(f) ==
  IF ~f.found \/ f.val.type = "nil" THEN Decoded(FALSE)
  ELSE IF f.val.type = "bool" THEN Decoded(f.val.v)
  ELSE DecodeFailed(FALSE)

\* time.Time is a struct without exported fields: a map decodes to the zero
\* time, anything else is not a map
decodeTime(f) ==
  IF ~f.found \/ f.val.type = "nil" THEN Decoded(0)
  ELSE IF f.val.type = "map[string]interface{}" THEN Decoded(0)
  ELSE DecodeFailed(0)

decodeMap(f) ==
  IF ~f.found \/ f.val.type = "nil" THEN Decoded(VNil)
  ELSE IF f.val.type = "map[string]interface{}" THEN Decoded(f.val)
  ELSE DecodeFailed(VNil)

decodeStrings(f) ==
  IF ~f.found \/ f.val.type = "nil" THEN Decoded(VNil)
  ELSE IF f.val.type = "[]string" THEN Decoded(f.val)
  ELSE IF f.val.type = "[]interface{}" THEN
         IF \A i \in 1 .. Len(f.val.v) : f.val.v[i].type = "string"
           THEN Decoded(VStrings([i \in 1 .. Len(f.val.v) |-> f.val.v[i].v]))
           ELSE DecodeFailed(VNil)
  ELSE DecodeFailed(VNil)

decodeSecretConfig(f) ==
  IF ~f.found \/ f.val.type = "nil" THEN Decoded(ZeroSecretConfig)
  ELSE IF f.val.type # "map[string]interface{}" THEN DecodeFailed(ZeroSecretConfig)
  ELSE LET mv == decodeInt(FieldValue(f.val.v, "MaxVersions"))
           cr == decodeBool(FieldValue(f.val.v, "CASRequired"))
           da == decodeInt(FieldValue(f.val.v, "DeleteVersionAfter"))
       IN  [val |-> [MaxVersions |-> mv.val, CASRequired |-> cr.val,
                     DeleteVersionAfter |-> da.val],
            ok |-> mv.ok /\ cr.ok /\ da.ok]

decodeSecretVersion(f) ==
  IF ~f.found \/ f.val.type = "nil" THEN Decoded(ZeroSecretVersion)
  ELSE IF f.val.type # "map[string]interface{}" THEN DecodeFailed(ZeroSecretVersion)
  ELSE LET ct == decodeTime(FieldValue(f.val.v, "CreatedTime"))
           dt == decodeTime(FieldValue(f.val.v, "DeletionTime"))
           de == decodeBool(FieldValue(f.val.v, "Destroyed"))
           ve == decodeInt(FieldValue(f.val.v, "Version"))
       IN  [val |-> [CreatedTime |-> ct.val, DeletionTime |-> dt.val,
                     Destroyed |-> de.val, Version |-> ve.val],
            ok |-> ct.ok /\ dt.ok /\ de.ok /\ ve.ok]

decodeSecret(f) ==
  IF ~f.found \/ f.val.type = "nil" THEN Decoded(ZeroSecret)
  ELSE IF f.val.type # "map[string]interface{}" THEN DecodeFailed(ZeroSecret)
  ELSE LET d == decodeMap(FieldValue(f.val.v, "Data"))
           m == decodeSecretVersion(FieldValue(f.val.v, "Metadata"))
       IN  [val |-> [Data |-> d.val, Metadata |-> m.val], ok |-> d.ok /\ m.ok]

decodeVersions(f) ==
  IF ~f.found \/ f.val.type = "nil" THEN Decoded(EmptyMap)
  ELSE IF f.val.type # "map[string]interface{}" THEN DecodeFailed(EmptyMap)
  ELSE LET each == [k \in DOMAIN f.val.v |->
                      decodeSecretVersion([found |-> TRUE, val |-> f.val.v[k]])]
       IN  [val |-> [k \in DOMAIN each |-> each[k].val],
            ok |-> \A k \in DOMAIN each : each[k].ok]

decodeSecretMetadata(f) ==
  IF ~f.found \/ f.val.type = "nil" THEN Decoded(ZeroSecretMetadata)
  ELSE IF f.val.type # "map[string]interface{}" THEN DecodeFailed(ZeroSecretMetadata)
  ELSE LET ct == decodeTime(FieldValue(f.val.v, "CreatedTime"))
           cv == decodeInt(FieldValue(f.val.v, "CurrentVersion"))
           mv == decodeInt(FieldValue(f.val.v, "MaxVersions"))
           ov == decodeInt(FieldValue(f.val.v, "OldestVersion"))
           ut == decodeTime(FieldValue(f.val.v, "UpdatedTime"))
           vs == decodeVersions(FieldValue(f.val.v, "Versions"))
       IN  [val |-> [CreatedTime |-> ct.val, CurrentVersion |-> cv.val,
                     MaxVersions |-> mv.val, OldestVersion |-> ov.val,
                     UpdatedTime |-> ut.val, Versions |-> vs.val],
            ok |-> ct.ok /\ cv.ok /\ mv.ok /\ ov.ok /\ ut.ok /\ vs.ok]

\* struct { Keys []string `mapstructure:"keys"` }
decodeKeys(f) ==
  IF ~f.found \/ f.val.type = "nil" THEN Decoded(VNil)
  ELSE IF f.val.type # "map[string]interface{}" THEN DecodeFailed(VNil)
  ELSE decodeStrings(FieldValue(f.val.v, "keys"))


(***************************************************************************)
(* The LogicalClient (transport) as seen by a facade                       *)
(***************************************************************************)
NilSecret == [isNil |-> TRUE, Data |-> EmptyMap]
ApiSecret(d) == [isNil |-> FALSE, Data |-> d]

NoData_nilOnly(secret) == secret.isNil

\* secret == nil || len(secret.Data) == 0
NoData(secret) == secret.isNil \/ DOMAIN secret.Data = {}

Call(m, p, d, q) == [method |-> m, path |-> p, data |-> d, query |-> q]

D_foo == [foo |-> VStr("bar")]
D_keys == [keys |-> VList(<<VStr("b"), VStr("a")>>)]
D_keysBad == [keys |-> VStr("a")]
D_version == [created_time |-> VStr("t"), deletion_time |-> VStr(""),
              destroyed |-> VBool(TRUE), version |-> VInt(1)]
D_secret == [data |-> VMap(D_foo), metadata |-> VMap(D_version)]
D_metadata == [created_time |-> VStr("t"), current_version |-> VInt(1),
               max_versions |-> VInt(0), oldest_version |-> VInt(0),
               updated_time |-> VStr("t"), versions |-> VMap([v1 |-> VMap(D_version)])]
Wrapped(d) == [data |-> VMap(d)]

(***************************************************************************)
(* Inputs                                                                  *)
(***************************************************************************)
Engines == {"cubbyhole", "kv1", "kv2"}
CustomMountPath == <<"/", "k", "v">>

defaultMountPath(e) ==
  IF e = "cubbyhole" THEN cubbyhole_defaultMountPath
  ELSE IF e = "kv1" THEN kv1_defaultMountPath
  ELSE kv2_defaultMountPath

\* NewClient's path argument; the package's DefaultClient is
\* NewClient(defaultMountPath, nil)
MountPaths(e) == {<<>>, defaultMountPath(e), CustomMountPath}
Paths ==
  {<<>>, <<"a">>, <<"/", "a", "/", "/", "b", "/">>, <<"b", "/", ".", ".", "/", "a">>}
DataArgs == {VNil, VMap(D_foo)}
Versions == (-2 .. MaxVersion) \cup {12}
Configs ==
  {ZeroSecretConfig,
   [MaxVersions |-> 1, CASRequired |-> FALSE, DeleteVersionAfter |-> 0],
   [MaxVersions |-> 1, CASRequired |-> TRUE, DeleteVersionAfter |-> 1]}

RECURSIVE VersionLists(_)
VersionLists(n) ==
  IF n = 0 THEN {<<>>}
  ELSE LET S == VersionLists(n - 1)
       IN  S \cup {<<n>> \o s : s \in {t \in S : Len(t) = n - 1}}

\* the data maps an envelope may hold
ReplyData ==
  {EmptyMap, D_foo, D_keys, D_keysBad, D_secret, D_version, D_metadata,
   Wrapped(D_secret), Wrapped(D_keys), Wrapped(D_version), Wrapped(D_metadata)}
  \cup {SecretConfigToMap(c) : c \in Configs}
  \cup {Wrapped(SecretConfigToMap(c)) : c \in Configs \ {ZeroSecretConfig}}

\* what the transport may answer: a failure (with or without an envelope),
\* no envelope, or an envelope holding a data map
Replies ==
  {[secret |-> NilSecret, err |-> ErrTransport],
   [secret |-> ApiSecret(D_foo), err |-> ErrTransport],
   [secret |-> NilSecret, err |-> NoErr]}
  \cup {[secret |-> ApiSecret(d), err |-> NoErr] : d \in ReplyData}

Args(p, ver, vers, d, c) ==
  [path |-> p, version |-> ver, versions |-> vers, data |-> d, cfg |-> c]
NoReply == [secret |-> NilSecret, err |-> NoErr]
NoArgs == Args(<<>>, 0, <<>>, VNil, ZeroSecretConfig)
PathArg(p) == Args(p, 0, <<>>, VNil, ZeroSecretConfig)

(***************************************************************************)
(* State                                                                   *)
(***************************************************************************)
VARIABLES
  engine,      \* which package the Client belongs to
  ctorMount,   \* the path argument NewClient was called with
  mountPath,   \* Client.mountPath
  client,      \* Client.client: "nil", "injected" (by NewClient) or "own"
  lastConfig,  \* the configuration last sent by SetEngineConfig
  pc,          \* "idle", or "returned" while the caller holds a method's results
  op,          \* the method that returned, "none" when idle
  args,        \* its arguments
  mountBefore, \* Client.mountPath when it was called
  calls,       \* the LogicalClient calls it made, in order
  reply,       \* what the LogicalClient answered
  result,      \* the value it returned
  err,         \* the error it returned
  gpc,         \* when goroutines share the Client: where each is in its method
  glocal,      \* the local variables of each goroutine
  handles,     \* the goroutines whose api.NewClient call built a LogicalClient
  stores       \* the goroutines that assigned a field of the Client, in order

vars == <<engine, ctorMount, mountPath, client, lastConfig, pc,
          op, args, mountBefore, calls, reply, result, err,
          gpc, glocal, handles, stores>>

\* the goroutines that call methods of one Client at the same time
Callers == {"g1", "g2"}

NotRead == "not read"

\* the local variables of a method that has not started
NoLocals ==
  [path |-> <<>>, mountSeen |-> <<>>, mountSeenAt |-> -1, joined |-> <<>>,
   clientSeen |-> NotRead, clientSeenAt |-> -1, used |-> NotRead, err |-> NoErr]

raceVars == <<gpc, glocal, handles, stores>>

\* NewClient(path, client)
NewClient(e, path, c) ==
  /\ engine = e
  /\ ctorMount = path
  /\ mountPath = path
  /\ client = c

Init ==
  /\ \E e \in Engines, c \in {"nil", "injected"} :
       \E path \in MountPaths(e) : NewClient(e, path, c)
  /\ lastConfig = [done |-> FALSE, cfg |-> ZeroSecretConfig, data |-> EmptyMap]
  /\ pc = "idle"
  /\ op = "none"
  /\ args = NoArgs
  /\ mountBefore = <<>>
  /\ calls = <<>>
  /\ reply = NoReply
  /\ result = VNil
  /\ err = NoErr
  /\ gpc = [g \in Callers |-> "ready"]
  /\ glocal = [g \in Callers |-> NoLocals]
  /\ handles = <<>>
  /\ stores = [mountPath |-> <<>>, client |-> <<>>]

\* api.NewClient(api.DefaultConfig()) succeeds or fails; it is only called
\* when the Client holds no LogicalClient yet
NewClientOutcomes(c) == IF c = "nil" THEN {"ok", "err"} ELSE {"ok"}

vaultClient(c, outcome) ==
  IF c # "nil" THEN [client |-> c, err |-> NoErr]
  ELSE IF outcome = "err" THEN [client |-> c, err |-> ErrNewClient]
  ELSE [client |-> "own", err |-> NoErr]

\* a method returns: the fields of the Client, the calls made, the answer
\* they got and the returned (value, error) pair
Return(o, a, mp, c, cs, rep, res, e) ==
  /\ pc' = "returned"
  /\ op' = o
  /\ args' = a
  /\ mountBefore' = mountPath
  /\ mountPath' = mp
  /\ client' = c
  /\ calls' = cs
  /\ reply' = IF cs = <<>> THEN NoReply ELSE rep
  /\ result' = res
  /\ err' = e
  /\ UNCHANGED <<engine, ctorMount>>
  /\ UNCHANGED raceVars

\* the caller is done with the returned values and may call again
CallerContinues ==
  /\ pc = "returned"
  /\ pc' = "idle"
  /\ op' = "none"
  /\ args' = NoArgs
  /\ mountBefore' = <<>>
  /\ calls' = <<>>
  /\ reply' = NoReply
  /\ result' = VNil
  /\ err' = NoErr
  /\ UNCHANGED <<engine, ctorMount, mountPath, client, lastConfig>>
  /\ UNCHANGED raceVars

(***************************************************************************)
(* secrets/cubbyhole and secrets/kv/v1                                     *)
(***************************************************************************)
cubbyhole_secretPath(mp, path) ==
  IF path = <<>> THEN [path |-> <<>>, err |-> ErrEmptyPath, mountPath |-> mp]
  ELSE LET m == IF mp = <<>> THEN cubbyhole_defaultMountPath ELSE mp
       IN  [path |-> pathJoin(<<m, path>>), err |-> NoErr, mountPath |-> m]

kv1_secretPath(mp, path) ==
  IF path = <<>> THEN [path |-> <<>>, err |-> ErrKV1EmptyPath, mountPath |-> mp]
  ELSE LET m == IF mp = <<>> THEN kv1_defaultMountPath ELSE mp
       IN  [path |-> pathJoin(<<m, path>>), err |-> NoErr, mountPath |-> m]

ReadSecretBody_noDataFirst(sp, a, noDataErr, nc, rep) ==
  LET vc == vaultClient(client, nc)
      cs == <<Call("Read", sp.path, VNil, EmptyMap)>>
      secret == rep.secret
  IN  IF sp.err # NoErr
        THEN Return("ReadSecret", a, sp.mountPath, client, <<>>, rep, VNil, sp.err)
      ELSE IF vc.err # NoErr
        THEN Return("ReadSecret", a, sp.mountPath, vc.client, <<>>, rep, VNil, vc.err)
      ELSE IF NoData(secret)
        THEN Return("ReadSecret", a, sp.mountPath, vc.client, cs, rep, VNil, noDataErr)
      ELSE IF rep.err # NoErr
        THEN Return("ReadSecret", a, sp.mountPath, vc.client, cs, rep, VNil, rep.err)
      ELSE Return("ReadSecret", a, sp.mountPath, vc.client, cs, rep, VMap(secret.Data), NoErr)

\* ReadSecret of cubbyhole and kv/v1, which differ in the secretPath they
\* use and in what an envelope without data becomes
ReadSecretBody(sp, a, noDataErr, nc, rep) ==
  LET vc == vaultClient(client, nc)
      cs == <<Call("Read", sp.path, VNil, EmptyMap)>>
      secret == rep.secret
  IN  IF sp.err # NoErr
        THEN Return("ReadSecret", a, sp.mountPath, client, <<>>, rep, VNil, sp.err)
      ELSE IF vc.err # NoErr
        THEN Return("ReadSecret", a, sp.mountPath, vc.client, <<>>, rep, VNil, vc.err)
      ELSE IF rep.err # NoErr
        THEN Return("ReadSecret", a, sp.mountPath, vc.client, cs, rep, VNil, rep.err)
      ELSE IF NoData(secret)
        THEN Return("ReadSecret", a, sp.mountPath, vc.client, cs, rep, VNil, noDataErr)
      ELSE Return("ReadSecret", a, sp.mountPath, vc.client, cs, rep, VMap(secret.Data), NoErr)

ListSecretsBody(sp, a, noDataErr, nc, rep) ==
  LET vc == vaultClient(client, nc)
      cs == <<Call("List", sp.path, VNil, EmptyMap)>>
      secret == rep.secret
      aux == decodeStrings(FieldValue(secret.Data, "keys"))
  IN  IF sp.err # NoErr
        THEN Return("ListSecrets", a, sp.mountPath, client, <<>>, rep, VNil, sp.err)
      ELSE IF vc.err # NoErr
        THEN Return("ListSecrets", a, sp.mountPath, vc.client, <<>>, rep, VNil, vc.err)
      ELSE IF rep.err # NoErr
        THEN Return("ListSecrets", a, sp.mountPath, vc.client, cs, rep, VNil, rep.err)
      ELSE IF NoData(secret)
        THEN Return("ListSecrets", a, sp.mountPath, vc.client, cs, rep, VNil, noDataErr)
      ELSE IF ~aux.ok
        THEN Return("ListSecrets", a, sp.mountPath, vc.client, cs, rep, VNil, ErrDecode)
      ELSE Return("ListSecrets", a, sp.mountPath, vc.client, cs, rep, aux.val, NoErr)

WriteSecretBody(sp, a, nc, rep) ==
  LET vc == vaultClient(client, nc)
      cs == <<Call("Write", sp.path, a.data, EmptyMap)>>
  IN  IF sp.err # NoErr
        THEN Return("WriteSecret", a, sp.mountPath, client, <<>>, rep, VNil, sp.err)
      ELSE IF vc.err # NoErr
        THEN Return("WriteSecret", a, sp.mountPath, vc.client, <<>>, rep, VNil, vc.err)
      ELSE Return("WriteSecret", a, sp.mountPath, vc.client, cs, rep, VNil, rep.err)

DeleteSecretBody_retry(sp, a, nc, rep) ==
  LET vc == vaultClient(client, nc)
      c == Call("Delete", sp.path, VNil, EmptyMap)
      cs == IF rep.err # NoErr THEN <<c, c>> ELSE <<c>>
  IN  IF sp.err # NoErr
        THEN Return("DeleteSecret", a, sp.mountPath, client, <<>>, rep, VNil, sp.err)
      ELSE IF vc.err # NoErr
        THEN Return("DeleteSecret", a, sp.mountPath, vc.client, <<>>, rep, VNil, vc.err)
      ELSE Return("DeleteSecret", a, sp.mountPath, vc.client, cs, rep, VNil, rep.err)

DeleteSecretBody(sp, a, nc, rep) ==
  LET vc == vaultClient(client, nc)
      cs == <<Call("Delete", sp.path, VNil, EmptyMap)>>
  IN  IF sp.err # NoErr
        THEN Return("DeleteSecret", a, sp.mountPath, client, <<>>, rep, VNil, sp.err)
      ELSE IF vc.err # NoErr
        THEN Return("DeleteSecret", a, sp.mountPath, vc.client, <<>>, rep, VNil, vc.err)
      ELSE Return("DeleteSecret", a, sp.mountPath, vc.client, cs, rep, VNil, rep.err)

cubbyhole_ReadSecret ==
  /\ engine = "cubbyhole" /\ pc = "idle"
  /\ \E path \in Paths, nc \in NewClientOutcomes(client), rep \in Replies :
       LET sp == cubbyhole_secretPath(mountPath, path)
       IN  ReadSecretBody(sp, PathArg(path),
                          PathError("ReadSecret", sp.path, ErrNoSecretData), nc, rep)
  /\ UNCHANGED lastConfig

cubbyhole_ListSecrets_silent ==
  /\ engine = "cubbyhole" /\ pc = "idle"
  /\ \E path \in Paths, nc \in NewClientOutcomes(client), rep \in Replies :
       ListSecretsBody(cubbyhole_secretPath(mountPath, path), PathArg(path), NoErr, nc, rep)
  /\ UNCHANGED lastConfig

cubbyhole_ListSecrets ==
  /\ engine = "cubbyhole" /\ pc = "idle"
  /\ \E path \in Paths, nc \in NewClientOutcomes(client), rep \in Replies :
       LET sp == cubbyhole_secretPath(mountPath, path)
       IN  ListSecretsBody(sp, PathArg(path),
                           PathError("ListSecrets", sp.path, ErrNoSecretData), nc, rep)
  /\ UNCHANGED lastConfig

cubbyhole_WriteSecret ==
  /\ engine = "cubbyhole" /\ pc = "idle"
  /\ \E path \in Paths, data \in DataArgs, nc \in NewClientOutcomes(client),
        rep \in Replies :
       WriteSecretBody(cubbyhole_secretPath(mountPath, path),
                       Args(path, 0, <<>>, data, ZeroSecretConfig), nc, rep)
  /\ UNCHANGED lastConfig

cubbyhole_DeleteSecret ==
  /\ engine = "cubbyhole" /\ pc = "idle"
  /\ \E path \in Paths, nc \in NewClientOutcomes(client), rep \in Replies :
       DeleteSecretBody(cubbyhole_secretPath(mountPath, path), PathArg(path), nc, rep)
  /\ UNCHANGED lastConfig

kv1_ReadSecret_notFound ==
  /\ engine = "kv1" /\ pc = "idle"
  /\ \E path \in Paths, nc \in NewClientOutcomes(client), rep \in Replies :
       LET sp == kv1_secretPath(mountPath, path)
       IN  ReadSecretBody(sp, PathArg(path),
                          PathError("ReadSecret", sp.path, ErrNoSecretData), nc, rep)
  /\ UNCHANGED lastConfig

kv1_ReadSecret ==
  /\ engine = "kv1" /\ pc = "idle"
  /\ \E path \in Paths, nc \in NewClientOutcomes(client), rep \in Replies :
       ReadSecretBody(kv1_secretPath(mountPath, path), PathArg(path), NoErr, nc, rep)
  /\ UNCHANGED lastConfig

kv1_ListSecrets ==
  /\ engine = "kv1" /\ pc = "idle"
  /\ \E path \in Paths, nc \in NewClientOutcomes(client), rep \in Replies :
       ListSecretsBody(kv1_secretPath(mountPath, path), PathArg(path), NoErr, nc, rep)
  /\ UNCHANGED lastConfig

kv1_WriteSecret ==
  /\ engine = "kv1" /\ pc = "idle"
  /\ \E path \in Paths, data \in DataArgs, nc \in NewClientOutcomes(client),
        rep \in Replies :
       WriteSecretBody(kv1_secretPath(mountPath, path),
                       Args(path, 0, <<>>, data, ZeroSecretConfig), nc, rep)
  /\ UNCHANGED lastConfig

kv1_DeleteSecret ==
  /\ engine = "kv1" /\ pc = "idle"
  /\ \E path \in Paths, nc \in NewClientOutcomes(client), rep \in Replies :
       DeleteSecretBody(kv1_secretPath(mountPath, path), PathArg(path), nc, rep)
  /\ UNCHANGED lastConfig

(***************************************************************************)
(* secrets/kv/v2                                                           *)
(***************************************************************************)
Seg_config == <<"c", "o", "n", "f", "i", "g">>
Seg_data == <<"d", "a", "t", "a">>
Seg_metadata == <<"m", "e", "t", "a", "d", "a", "t", "a">>
Seg_delete == <<"d", "e", "l", "e", "t", "e">>
Seg_undelete == <<"u", "n", "d", "e", "l", "e", "t", "e">>
Seg_destroy == <<"d", "e", "s", "t", "r", "o", "y">>

kv2_secretPath_alwaysDefault(mp, path, metadata) ==
  IF path = <<>> THEN [path |-> <<>>, err |-> ErrKV2EmptyPath, mountPath |-> mp]
  ELSE LET m == kv2_defaultMountPath
           seg == IF metadata THEN Seg_metadata ELSE Seg_data
       IN  [path |-> pathJoin(<<m, seg, path>>), err |-> NoErr, mountPath |-> m]

kv2_secretPath(mp, path, metadata) ==
  IF path = <<>> THEN [path |-> <<>>, err |-> ErrKV2EmptyPath, mountPath |-> mp]
  ELSE LET m == IF mp = <<>> THEN kv2_defaultMountPath ELSE mp
           seg == IF metadata THEN Seg_metadata ELSE Seg_data
       IN  [path |-> pathJoin(<<m, seg, path>>), err |-> NoErr, mountPath |-> m]

kv2_SetEngineConfig ==
  /\ engine = "kv2" /\ pc = "idle"
  /\ \E cfg \in Configs, nc \in NewClientOutcomes(client), rep \in Replies :
       LET a == Args(<<>>, 0, <<>>, VNil, cfg)
           vc == vaultClient(client, nc)
           data == SecretConfigToMap(cfg)
           cs == <<Call("Write", pathJoin(<<mountPath, Seg_config>>), VMap(data), EmptyMap)>>
       IN  IF vc.err # NoErr
             THEN /\ Return("SetEngineConfig", a, mountPath, vc.client, <<>>, rep, VNil, vc.err)
                  /\ UNCHANGED lastConfig
           ELSE /\ Return("SetEngineConfig", a, mountPath, vc.client, cs, rep, VNil, rep.err)
                /\ lastConfig' = [done |-> TRUE, cfg |-> cfg, data |-> data]

kv2_EngineConfig ==
  /\ engine = "kv2" /\ pc = "idle"
  /\ \E nc \in NewClientOutcomes(client), rep \in Replies :
     LET zero == VStruct("SecretConfig", ZeroSecretConfig)
         vc == vaultClient(client, nc)
         cs == <<Call("Read", pathJoin(<<mountPath, Seg_config>>), VNil, EmptyMap)>>
         secret == rep.secret
         aux == decodeSecretConfig(FieldValue(secret.Data, "data"))
     IN  IF vc.err # NoErr
           THEN Return("EngineConfig", NoArgs, mountPath, vc.client, <<>>, rep, zero, vc.err)
         ELSE IF rep.err # NoErr
           THEN Return("EngineConfig", NoArgs, mountPath, vc.client, cs, rep, zero, rep.err)
         ELSE IF NoData(secret)
           THEN Return("EngineConfig", NoArgs, mountPath, vc.client, cs, rep, zero, NoErr)
         ELSE IF ~aux.ok
           THEN Return("EngineConfig", NoArgs, mountPath, vc.client, cs, rep, zero, ErrDecode)
         ELSE Return("EngineConfig", NoArgs, mountPath, vc.client, cs, rep,
                     VStruct("SecretConfig", aux.val), NoErr)
  /\ UNCHANGED lastConfig

ReadsVersion_positiveOnly(version) == version > 0

\* if version > -1: the read names the version
ReadsVersion(version) == version > -1

\* what ReadSecretVersion(path, version) does on a Client whose fields are mp
\* and c: the fields afterwards, the calls made and the returned pair
ReadSecretVersionOutcome(mp, c, path, version, nc, rep) ==
  LET zero == VStruct("Secret", ZeroSecret)
      sp == kv2_secretPath(mp, path, FALSE)
      vc == vaultClient(c, nc)
      cs == IF ReadsVersion(version)
              THEN <<Call("ReadWithData", sp.path, VNil, [version |-> <<Itoa(version)>>])>>
              ELSE <<Call("Read", sp.path, VNil, EmptyMap)>>
      secret == rep.secret
      aux == decodeSecret(FieldValue(secret.Data, "data"))
      Out(m, cl, calls_, res, e) ==
        [mountPath |-> m, client |-> cl, calls |-> calls_, result |-> res, err |-> e]
  IN  IF sp.err # NoErr THEN Out(sp.mountPath, c, <<>>, zero, sp.err)
      ELSE IF vc.err # NoErr THEN Out(sp.mountPath, vc.client, <<>>, zero, vc.err)
      ELSE IF rep.err # NoErr THEN Out(sp.mountPath, vc.client, cs, zero, rep.err)
      ELSE IF NoData(secret) THEN Out(sp.mountPath, vc.client, cs, zero, NoErr)
      ELSE IF ~aux.ok THEN Out(sp.mountPath, vc.client, cs, zero, ErrDecode)
      ELSE Out(sp.mountPath, vc.client, cs, VStruct("Secret", aux.val), NoErr)

ReadSecretLatestOutcome_versionZero(mp, c, path, nc, rep) ==
  ReadSecretVersionOutcome(mp, c, path, 0, nc, rep)

\* return c.ReadSecretVersion(path, -1)
ReadSecretLatestOutcome(mp, c, path, nc, rep) ==
  ReadSecretVersionOutcome(mp, c, path, -1, nc, rep)

kv2_ReadSecretLatest ==
  /\ engine = "kv2" /\ pc = "idle"
  /\ \E path \in Paths, nc \in NewClientOutcomes(client), rep \in Replies :
       LET out == ReadSecretLatestOutcome(mountPath, client, path, nc, rep)
       IN  Return("ReadSecretLatest", PathArg(path), out.mountPath, out.client,
                  out.calls, rep, out.result, out.err)
  /\ UNCHANGED lastConfig

kv2_ReadSecretVersion ==
  /\ engine = "kv2" /\ pc = "idle"
  /\ \E path \in Paths, version \in Versions, nc \in NewClientOutcomes(client),
        rep \in Replies :
       LET out == ReadSecretVersionOutcome(mountPath, client, path, version, nc, rep)
       IN  Return("ReadSecretVersion", Args(path, version, <<>>, VNil, ZeroSecretConfig),
                  out.mountPath, out.client, out.calls, rep, out.result, out.err)
  /\ UNCHANGED lastConfig

WritePayload_casFromOne(version, data) ==
  IF version > 0
    THEN [k \in {"data", "options"} |->
            IF k = "data" THEN data ELSE VMap([cas |-> VInt(version)])]
    ELSE [k \in {"data"} |-> data]

\* the map WriteSecretVersion sends
WritePayload(version, data) ==
  IF version > -1
    THEN [k \in {"data", "options"} |->
            IF k = "data" THEN data ELSE VMap([cas |-> VInt(version)])]
    ELSE [k \in {"data"} |-> data]

\* the body of WriteSecretVersion, which WriteSecretLatest calls with version -1
WriteSecretVersionBody(o, a, path, version, data, nc, rep) ==
  LET zero == VStruct("SecretVersion", ZeroSecretVersion)
      sp == kv2_secretPath(mountPath, path, FALSE)
      vc == vaultClient(client, nc)
      cs == <<Call("Write", sp.path, VMap(WritePayload(version, data)), EmptyMap)>>
      secret == rep.secret
      aux == decodeSecretVersion(FieldValue(secret.Data, "data"))
  IN  IF sp.err # NoErr
        THEN Return(o, a, sp.mountPath, client, <<>>, rep, zero, sp.err)
      ELSE IF vc.err # NoErr
        THEN Return(o, a, sp.mountPath, vc.client, <<>>, rep, zero, vc.err)
      ELSE IF rep.err # NoErr
        THEN Return(o, a, sp.mountPath, vc.client, cs, rep, zero, rep.err)
      ELSE IF NoData(secret)
        THEN Return(o, a, sp.mountPath, vc.client, cs, rep, zero, NoErr)
      ELSE IF ~aux.ok
        THEN Return(o, a, sp.mountPath, vc.client, cs, rep, zero, ErrDecode)
      ELSE Return(o, a, sp.mountPath, vc.client, cs, rep,
                  VStruct("SecretVersion", aux.val), NoErr)

kv2_WriteSecretLatest ==
  /\ engine = "kv2" /\ pc = "idle"
  /\ \E path \in Paths, data \in DataArgs, nc \in NewClientOutcomes(client),
        rep \in Replies :
       WriteSecretVersionBody("WriteSecretLatest",
                              Args(path, 0, <<>>, data, ZeroSecretConfig),
                              path, -1, data, nc, rep)
  /\ UNCHANGED lastConfig

kv2_WriteSecretVersion ==
  /\ engine = "kv2" /\ pc = "idle"
  /\ \E path \in Paths, version \in Versions, data \in DataArgs,
        nc \in NewClientOutcomes(client), rep \in Replies :
       WriteSecretVersionBody("WriteSecretVersion",
                              Args(path, version, <<>>, data, ZeroSecretConfig),
                              path, version, data, nc, rep)
  /\ UNCHANGED lastConfig

kv2_DeleteSecretLatest ==
  /\ engine = "kv2" /\ pc = "idle"
  /\ \E path \in Paths, nc \in NewClientOutcomes(client), rep \in Replies :
       LET a == PathArg(path)
           sp == kv2_secretPath(mountPath, path, FALSE)
           vc == vaultClient(client, nc)
           cs == <<Call("Delete", sp.path, VNil, EmptyMap)>>
       IN  IF sp.err # NoErr
             THEN Return("DeleteSecretLatest", a, sp.mountPath, client, <<>>, rep, VNil, sp.err)
           ELSE IF vc.err # NoErr
             THEN Return("DeleteSecretLatest", a, sp.mountPath, vc.client, <<>>, rep, VNil, vc.err)
           ELSE Return("DeleteSecretLatest", a, sp.mountPath, vc.client, cs, rep, VNil,
                       rep.err)
  /\ UNCHANGED lastConfig

\* whether the method refuses an empty version list before doing anything
ChecksVersions(o) == o \in {"UndeleteSecretVersion", "DestroySecretVersion"}

\* DeleteSecretVersion, UndeleteSecretVersion and DestroySecretVersion: the
\* same body up to the action segment and the check of len(version)
VersionActionBody(o, seg, path, version, nc, rep) ==
  LET a == Args(path, 0, version, VNil, ZeroSecretConfig)
      vc == vaultClient(client, nc)
      p == pathJoin(<<mountPath, seg, path>>)
      cs == <<Call("Write", p, VMap([versions |-> VInts(version)]), EmptyMap)>>
  IN  IF ChecksVersions(o) /\ Len(version) = 0
        THEN Return(o, a, mountPath, client, <<>>, rep, VNil, ErrKV2NoVersion)
      ELSE IF vc.err # NoErr
        THEN Return(o, a, mountPath, vc.client, <<>>, rep, VNil, vc.err)
      ELSE Return(o, a, mountPath, vc.client, cs, rep, VNil, rep.err)

kv2_DeleteSecretVersion ==
  /\ engine = "kv2" /\ pc = "idle"
  /\ \E path \in Paths, version \in VersionLists(MaxVersions),
        nc \in NewClientOutcomes(client), rep \in Replies :
       VersionActionBody("DeleteSecretVersion", Seg_delete, path, version, nc, rep)
  /\ UNCHANGED lastConfig

kv2_UndeleteSecretVersion ==
  /\ engine = "kv2" /\ pc = "idle"
  /\ \E path \in Paths, version \in VersionLists(MaxVersions),
        nc \in NewClientOutcomes(client), rep \in Replies :
       VersionActionBody("UndeleteSecretVersion", Seg_undelete, path, version, nc, rep)
  /\ UNCHANGED lastConfig

kv2_DestroySecretVersion ==
  /\ engine = "kv2" /\ pc = "idle"
  /\ \E path \in Paths, version \in VersionLists(MaxVersions),
        nc \in NewClientOutcomes(client), rep \in Replies :
       VersionActionBody("DestroySecretVersion", Seg_destroy, path, version, nc, rep)
  /\ UNCHANGED lastConfig

kv2_ListSecrets ==
  /\ engine = "kv2" /\ pc = "idle"
  /\ \E path \in Paths, nc \in NewClientOutcomes(client), rep \in Replies :
       LET a == PathArg(path)
           sp == kv2_secretPath(mountPath, path, TRUE)
           vc == vaultClient(client, nc)
           cs == <<Call("List", sp.path, VNil, EmptyMap)>>
           secret == rep.secret
           aux == decodeKeys(FieldValue(secret.Data, "Data"))
       IN  IF sp.err # NoErr
             THEN Return("ListSecrets", a, sp.mountPath, client, <<>>, rep, VNil, sp.err)
           ELSE IF vc.err # NoErr
             THEN Return("ListSecrets", a, sp.mountPath, vc.client, <<>>, rep, VNil, vc.err)
           ELSE IF rep.err # NoErr
             THEN Return("ListSecrets", a, sp.mountPath, vc.client, cs, rep, VNil, rep.err)
           ELSE IF NoData(secret)
             THEN Return("ListSecrets", a, sp.mountPath, vc.client, cs, rep, VNil, NoErr)
           ELSE IF ~aux.ok
             THEN Return("ListSecrets", a, sp.mountPath, vc.client, cs, rep, VNil, ErrDecode)
           ELSE Return("ListSecrets", a, sp.mountPath, vc.client, cs, rep, aux.val, NoErr)
  /\ UNCHANGED lastConfig

kv2_ReadSecretMetadata_read ==
  /\ engine = "kv2" /\ pc = "idle"
  /\ \E path \in Paths, nc \in NewClientOutcomes(client), rep \in Replies :
       LET a == PathArg(path)
           zero == VStruct("SecretMetadata", ZeroSecretMetadata)
           sp == kv2_secretPath(mountPath, path, TRUE)
           vc == vaultClient(client, nc)
           cs == <<Call("Read", sp.path, VNil, EmptyMap)>>
           secret == rep.secret
           aux == decodeSecretMetadata(FieldValue(secret.Data, "data"))
       IN  IF sp.err # NoErr
             THEN Return("ReadSecretMetadata", a, sp.mountPath, client, <<>>, rep, zero, sp.err)
           ELSE IF vc.err # NoErr
             THEN Return("ReadSecretMetadata", a, sp.mountPath, vc.client, <<>>, rep, zero, vc.err)
           ELSE IF rep.err # NoErr
             THEN Return("ReadSecretMetadata", a, sp.mountPath, vc.client, cs, rep, zero,
                         rep.err)
           ELSE IF NoData(secret)
             THEN Return("ReadSecretMetadata", a, sp.mountPath, vc.client, cs, rep, zero, NoErr)
           ELSE IF ~aux.ok
             THEN Return("ReadSecretMetadata", a, sp.mountPath, vc.client, cs, rep, zero, ErrDecode)
           ELSE Return("ReadSecretMetadata", a, sp.mountPath, vc.client, cs, rep,
                       VStruct("SecretMetadata", aux.val), NoErr)
  /\ UNCHANGED lastConfig

kv2_ReadSecretMetadata ==
  /\ engine = "kv2" /\ pc = "idle"
  /\ \E path \in Paths, nc \in NewClientOutcomes(client), rep \in Replies :
       LET a == PathArg(path)
           zero == VStruct("SecretMetadata", ZeroSecretMetadata)
           sp == kv2_secretPath(mountPath, path, TRUE)
           vc == vaultClient(client, nc)
           cs == <<Call("List", sp.path, VNil, EmptyMap)>>
           secret == rep.secret
           aux == decodeSecretMetadata(FieldValue(secret.Data, "data"))
       IN  IF sp.err # NoErr
             THEN Return("ReadSecretMetadata", a, sp.mountPath, client, <<>>, rep, zero, sp.err)
           ELSE IF vc.err # NoErr
             THEN Return("ReadSecretMetadata", a, sp.mountPath, vc.client, <<>>, rep, zero, vc.err)
           ELSE IF rep.err # NoErr
             THEN Return("ReadSecretMetadata", a, sp.mountPath, vc.client, cs, rep, zero,
                         rep.err)
           ELSE IF NoData(secret)
             THEN Return("ReadSecretMetadata", a, sp.mountPath, vc.client, cs, rep, zero, NoErr)
           ELSE IF ~aux.ok
             THEN Return("ReadSecretMetadata", a, sp.mountPath, vc.client, cs, rep, zero, ErrDecode)
           ELSE Return("ReadSecretMetadata", a, sp.mountPath, vc.client, cs, rep,
                       VStruct("SecretMetadata", aux.val), NoErr)
  /\ UNCHANGED lastConfig

kv2_WriteSecretMetadata ==
  /\ engine = "kv2" /\ pc = "idle"
  /\ \E path \in Paths, cfg \in Configs, nc \in NewClientOutcomes(client),
        rep \in Replies :
       LET a == Args(path, 0, <<>>, VNil, cfg)
           sp == kv2_secretPath(mountPath, path, TRUE)
           vc == vaultClient(client, nc)
           cs == <<Call("Write", sp.path, VMap(SecretConfigToMap(cfg)), EmptyMap)>>
       IN  IF sp.err # NoErr
             THEN Return("WriteSecretMetadata", a, sp.mountPath, client, <<>>, rep, VNil, sp.err)
           ELSE IF vc.err # NoErr
             THEN Return("WriteSecretMetadata", a, sp.mountPath, vc.client, <<>>, rep, VNil, vc.err)
           ELSE Return("WriteSecretMetadata", a, sp.mountPath, vc.client, cs, rep, VNil,
                       rep.err)
  /\ UNCHANGED lastConfig

kv2_DeleteSecretMetadata ==
  /\ engine = "kv2" /\ pc = "idle"
  /\ \E path \in Paths, nc \in NewClientOutcomes(client), rep \in Replies :
       LET a == PathArg(path)
           sp == kv2_secretPath(mountPath, path, TRUE)
           vc == vaultClient(client, nc)
           cs == <<Call("Delete", sp.path, VNil, EmptyMap)>>
       IN  IF sp.err # NoErr
             THEN Return("DeleteSecretMetadata", a, sp.mountPath, client, <<>>, rep, VNil, sp.err)
           ELSE IF vc.err # NoErr
             THEN Return("DeleteSecretMetadata", a, sp.mountPath, vc.client, <<>>, rep, VNil, vc.err)
           ELSE Return("DeleteSecretMetadata", a, sp.mountPath, vc.client, cs, rep, VNil,
                       rep.err)
  /\ UNCHANGED lastConfig

Next ==
  \/ cubbyhole_ReadSecret
  \/ cubbyhole_ListSecrets
  \/ cubbyhole_WriteSecret
  \/ cubbyhole_DeleteSecret
  \/ kv1_ReadSecret
  \/ kv1_ListSecrets
  \/ kv1_WriteSecret
  \/ kv1_DeleteSecret
  \/ kv2_SetEngineConfig
  \/ kv2_EngineConfig
  \/ kv2_ReadSecretLatest
  \/ kv2_ReadSecretVersion
  \/ kv2_WriteSecretLatest
  \/ kv2_WriteSecretVersion
  \/ kv2_DeleteSecretLatest
  \/ kv2_DeleteSecretVersion
  \/ kv2_UndeleteSecretVersion
  \/ kv2_DestroySecretVersion
  \/ kv2_ListSecrets
  \/ kv2_ReadSecretMetadata
  \/ kv2_WriteSecretMetadata
  \/ kv2_DeleteSecretMetadata
  \/ CallerContinues

Spec == Init /\ [][Next]_vars

(***************************************************************************)
(* Two goroutines calling one Client.  Nothing orders the goroutines'      *)
(* accesses to c.mountPath and c.client, so each read and each write of a  *)
(* field is a step of its own, and a read that races with another          *)
(* goroutine's write may return the value before it, the value written, or *)
(* a torn value (a string header or an interface value is two words).      *)
(* Each goroutine runs ReadSecret (ReadSecretLatest in kv/v2):             *)
(* secretPath, vaultClient, client.Read.                                   *)
(***************************************************************************)
RacePaths == {<<>>, <<"a">>}

\* the LogicalClient that api.NewClient builds for goroutine g
HandleOf(g) == IF g = "g1" THEN "own_g1" ELSE "own_g2"

\* a string header with the length of the new value and the pointer of the old
TornString == <<"torn">>
\* an interface value with the type word of the new value and the data word
\* of the old: not nil, and pointing nowhere
TornClient == "torn"

Range(f) == {f[i] : i \in DOMAIN f}

secretPathOf(e, mp, path) ==
  IF e = "cubbyhole" THEN cubbyhole_secretPath(mp, path)
  ELSE IF e = "kv1" THEN kv1_secretPath(mp, path)
  ELSE kv2_secretPath(mp, path, FALSE)

\* what goroutine g may read from c.mountPath
ReadMount(g) ==
  IF Range(stores.mountPath) \ {g} = {} \/ g \in Range(stores.mountPath)
       \/ glocal[g].mountSeen = mountPath
    THEN {mountPath}
  ELSE IF glocal[g].mountSeen = TornString THEN {mountPath, TornString}
  ELSE {<<>>, mountPath, TornString}

\* what goroutine g may read from c.client
ReadClient(g) ==
  LET others == {HandleOf(h) : h \in Range(stores.client) \ {g}}
  IN  IF others = {} THEN {client}
      ELSE IF g \in Range(stores.client) THEN {HandleOf(g)} \cup others
      ELSE IF glocal[g].clientSeen = NotRead THEN {"nil", TornClient} \cup others
      ELSE IF glocal[g].clientSeen = TornClient THEN {TornClient} \cup others
      ELSE others

StoreClient_once(cur, h) == IF cur = "nil" THEN h ELSE cur

\* c.client = client.Logical()
StoreClient(cur, h) == h

Goto(g, label, locals) ==
  /\ gpc' = [gpc EXCEPT ![g] = label]
  /\ glocal' = [glocal EXCEPT ![g] = locals]

SingleCallerIdle ==
  UNCHANGED <<engine, ctorMount, lastConfig, pc, op, args, mountBefore, reply,
              result, err>>

\* the method is called: if path == "" { return "", ErrEmptyPath }
race_secretPath_enter ==
  \E g \in Callers, path \in RacePaths :
    /\ gpc[g] = "ready"
    /\ LET sp == secretPathOf(engine, mountPath, path)
       IN  IF path = <<>>
             THEN Goto(g, "done", [glocal[g] EXCEPT !.path = path, !.err = sp.err])
             ELSE Goto(g, "sp_test", [glocal[g] EXCEPT !.path = path])
    /\ UNCHANGED <<mountPath, client, calls, handles, stores>>
    /\ SingleCallerIdle

\* if c.mountPath == ""
race_secretPath_test ==
  \E g \in Callers :
    /\ gpc[g] = "sp_test"
    /\ \E m \in ReadMount(g) :
         LET locals == [glocal[g] EXCEPT !.mountSeen = m,
                                         !.mountSeenAt = Len(stores.mountPath)]
         IN  IF m = <<>> THEN Goto(g, "sp_store", locals)
             ELSE Goto(g, "sp_join", locals)
    /\ UNCHANGED <<mountPath, client, calls, handles, stores>>
    /\ SingleCallerIdle

\* c.mountPath = defaultMountPath
race_secretPath_store ==
  \E g \in Callers :
    /\ gpc[g] = "sp_store"
    /\ mountPath' = defaultMountPath(engine)
    /\ stores' = [stores EXCEPT !.mountPath = Append(@, g)]
    /\ Goto(g, "sp_join", glocal[g])
    /\ UNCHANGED <<client, calls, handles>>
    /\ SingleCallerIdle

\* return pathJoin(c.mountPath, path), nil: joining a torn string reads
\* through its nil pointer
race_secretPath_join ==
  \E g \in Callers :
    /\ gpc[g] = "sp_join"
    /\ \E m \in ReadMount(g) :
         IF m = TornString
           THEN Goto(g, "panicked", [glocal[g] EXCEPT !.mountSeen = m])
           ELSE Goto(g, "vc_test",
                     [glocal[g] EXCEPT !.joined =
                        secretPathOf(engine, m, glocal[g].path).path])
    /\ UNCHANGED <<mountPath, client, calls, handles, stores>>
    /\ SingleCallerIdle

\* if c.client != nil
race_vaultClient_test ==
  \E g \in Callers :
    /\ gpc[g] = "vc_test"
    /\ \E c \in ReadClient(g) :
         LET locals == [glocal[g] EXCEPT !.clientSeen = c,
                                         !.clientSeenAt = Len(stores.client)]
         IN  IF c = "nil" THEN Goto(g, "vc_new", locals)
             ELSE Goto(g, "vc_return", locals)
    /\ UNCHANGED <<mountPath, client, calls, handles, stores>>
    /\ SingleCallerIdle

\* client, err := api.NewClient(api.DefaultConfig())
race_vaultClient_new ==
  \E g \in Callers, nc \in NewClientOutcomes("nil") :
    /\ gpc[g] = "vc_new"
    /\ IF vaultClient("nil", nc).err # NoErr
         THEN /\ Goto(g, "done", [glocal[g] EXCEPT !.err = vaultClient("nil", nc).err])
              /\ UNCHANGED handles
         ELSE /\ Goto(g, "vc_store", glocal[g])
              /\ handles' = Append(handles, g)
    /\ UNCHANGED <<mountPath, client, calls, stores>>
    /\ SingleCallerIdle

\* c.client = client.Logical()
race_vaultClient_store ==
  \E g \in Callers :
    /\ gpc[g] = "vc_store"
    /\ client' = StoreClient(client, HandleOf(g))
    /\ stores' = [stores EXCEPT !.client = Append(@, g)]
    /\ Goto(g, "vc_return", glocal[g])
    /\ UNCHANGED <<mountPath, calls, handles>>
    /\ SingleCallerIdle

\* return c.client, nil
race_vaultClient_return ==
  \E g \in Callers :
    /\ gpc[g] = "vc_return"
    /\ \E c \in ReadClient(g) : Goto(g, "call", [glocal[g] EXCEPT !.used = c])
    /\ UNCHANGED <<mountPath, client, calls, handles, stores>>
    /\ SingleCallerIdle

\* secret, err := client.Read(path): a method of a torn interface value
\* dereferences its nil data word
race_Read ==
  \E g \in Callers :
    /\ gpc[g] = "call"
    /\ IF glocal[g].used = TornClient
         THEN /\ Goto(g, "panicked", glocal[g])
              /\ UNCHANGED calls
         ELSE /\ Goto(g, "done", glocal[g])
              /\ calls' = Append(calls, Call("Read", glocal[g].joined, VNil, EmptyMap))
    /\ UNCHANGED <<mountPath, client, handles, stores>>
    /\ SingleCallerIdle

RaceNext ==
  \/ race_secretPath_enter
  \/ race_secretPath_test
  \/ race_secretPath_store
  \/ race_secretPath_join
  \/ race_vaultClient_test
  \/ race_vaultClient_new
  \/ race_vaultClient_store
  \/ race_vaultClient_return
  \/ race_Read

SpecRace == Init /\ [][RaceNext]_vars

(***************************************************************************)
(* Vocabulary of the properties                                            *)
(***************************************************************************)
ConfigOps == {"SetEngineConfig", "EngineConfig"}
VersionActionOps == {"DeleteSecretVersion", "UndeleteSecretVersion", "DestroySecretVersion"}
PathOps ==
  {"ReadSecret", "ListSecrets", "WriteSecret", "DeleteSecret",
   "ReadSecretVersion", "WriteSecretVersion", "DeleteSecretLatest",
   "ListSecrets", "ReadSecretMetadata", "WriteSecretMetadata", "DeleteSecretMetadata"}
  \cup VersionActionOps

ValidationErrors == {ErrEmptyPath, ErrKV1EmptyPath, ErrKV2EmptyPath, ErrKV2NoVersion}

\* the mount a Client built by NewClient(ctorMount, _) is meant to address
ExpectedMount == IF ctorMount = <<>> THEN defaultMountPath(engine) ELSE ctorMount

\* the value a method returns beside a non-nil error
ZeroResult(o) ==
  IF o = "EngineConfig" THEN VStruct("SecretConfig", ZeroSecretConfig)
  ELSE IF o \in {"ReadSecretLatest", "ReadSecretVersion"} THEN VStruct("Secret", ZeroSecret)
  ELSE IF o \in {"WriteSecretLatest", "WriteSecretVersion"}
    THEN VStruct("SecretVersion", ZeroSecretVersion)
  ELSE IF o = "ReadSecretMetadata" THEN VStruct("SecretMetadata", ZeroSecretMetadata)
  ELSE VNil

SameValue(x, y) == x.type = y.type /\ x.v = y.v

DigitValue(c) == CHOOSE d \in 0 .. 9 : DigitChar[d + 1] = c

RECURSIVE DecimalValue(_)
DecimalValue(s) ==
  IF Len(s) = 1 THEN DigitValue(s[1])
  ELSE 10 * DecimalValue(SubSeq(s, 1, Len(s) - 1)) + DigitValue(s[Len(s)])

\* s is the decimal numeral of the natural number n
IsDecimalOf(s, n) ==
  /\ s # <<>>
  /\ \A i \in 1 .. Len(s) : \E d \in 1 .. 10 : DigitChar[d] = s[i]
  /\ Len(s) > 1 => s[1] # "0"
  /\ DecimalValue(s) = n

(***************************************************************************)
(* C1: every path-taking method of every facade, called with the empty     *)
(* path, returns a validation error and makes no call on the               *)
(* LogicalClient.                                                          *)
(***************************************************************************)
C1_EmptyPathRejected ==
  (op \in PathOps /\ args.path = <<>>) => (err \in ValidationErrors /\ calls = <<>>)

(***************************************************************************)
(* C2: kv/v2 DeleteSecretVersion, UndeleteSecretVersion and                *)
(* DestroySecretVersion called without versions return a validation error  *)
(* and make no call on the LogicalClient.                                  *)
(***************************************************************************)
C2_NoVersionsRejected ==
  (engine = "kv2" /\ op \in VersionActionOps /\ args.versions = <<>>)
    => (err \in ValidationErrors /\ calls = <<>>)

(***************************************************************************)
(* C3: on a Client built by NewClient("", client), every path handed to    *)
(* the LogicalClient starts with the package's default mount path.         *)
(***************************************************************************)
C3_DefaultMountPrefix ==
  ctorMount = <<>> =>
    \A i \in 1 .. Len(calls) : HasPrefix(calls[i].path, defaultMountPath(engine))

(***************************************************************************)
(* C4: kv/v2 WriteSecretVersion(path, version, data) sends one Write whose *)
(* payload holds the caller's data under "data", no "options" when         *)
(* version < 0, and options.cas = version when version >= 0.               *)
(***************************************************************************)
C4_WriteCas ==
  (engine = "kv2" /\ op = "WriteSecretVersion" /\ args.path # <<>> /\ client # "nil") =>
    /\ Len(calls) = 1
    /\ calls[1].method = "Write"
    /\ LET d == calls[1].data.v
       IN  /\ "data" \in DOMAIN d
           /\ SameValue(d["data"], args.data)
           /\ args.version < 0 => DOMAIN d = {"data"}
           /\ args.version >= 0 =>
                /\ DOMAIN d = {"data", "options"}
                /\ DOMAIN d["options"].v = {"cas"}
                /\ d["options"].v["cas"] = VInt(args.version)

C4_Witness ==
  /\ engine = "kv2" /\ op = "WriteSecretVersion" /\ args.version = 0
  /\ SameValue(args.data, VMap(D_foo))
  /\ Len(calls) = 1
  /\ "options" \in DOMAIN calls[1].data.v

(***************************************************************************)
(* C5: kv/v2 ReadSecretVersion(path, version) with a non-empty path calls  *)
(* the LogicalClient at <mount>/data/<path>: a Read without query          *)
(* parameters when version < 0, a ReadWithData whose query parameters are  *)
(* exactly version = [decimal numeral of version] when version >= 0.       *)
(***************************************************************************)
C5_ReadVersionQuery ==
  (engine = "kv2" /\ op = "ReadSecretVersion" /\ args.path # <<>> /\ client # "nil") =>
    /\ Len(calls) = 1
    /\ calls[1].path = pathJoin(<<ExpectedMount, Seg_data, args.path>>)
    /\ args.version < 0 => (calls[1].method = "Read" /\ DOMAIN calls[1].query = {})
    /\ args.version >= 0 =>
         /\ calls[1].method = "ReadWithData"
         /\ DOMAIN calls[1].query = {"version"}
         /\ Len(calls[1].query["version"]) = 1
         /\ IsDecimalOf(calls[1].query["version"][1], args.version)

C5_Witness ==
  /\ engine = "kv2" /\ op = "ReadSecretVersion" /\ args.version = 0
  /\ args.path # <<>>
  /\ Len(calls) = 1
  /\ calls[1].method = "ReadWithData"

(***************************************************************************)
(* C6: cubbyhole ReadSecret(path) with a non-empty path: without an        *)
(* envelope, or with an envelope without data, the error is a PathError    *)
(* wrapping ErrNoSecretData whose path is join(mount, path); with data,    *)
(* the result is that data map and the error is nil.                       *)
(***************************************************************************)
C6_CubbyholeRead ==
  (engine = "cubbyhole" /\ op = "ReadSecret" /\ args.path # <<>> /\ client # "nil"
     /\ reply.err = NoErr) =>
    IF reply.secret.isNil \/ DOMAIN reply.secret.Data = {}
      THEN /\ err.kind = "PathError"
           /\ err.msg = ErrNoSecretData.msg
           /\ err.path = pathJoin(<<ExpectedMount, args.path>>)
           /\ result.type = "nil"
      ELSE /\ err = NoErr
           /\ SameValue(result, VMap(reply.secret.Data))

C6_Witness ==
  /\ engine = "cubbyhole" /\ op = "ReadSecret" /\ ctorMount = <<>>
  /\ ~reply.secret.isNil /\ reply.err = NoErr
  /\ DOMAIN reply.secret.Data = {}
  /\ err.kind = "PathError"

(***************************************************************************)
(* C7: when SetEngineConfig(cfg) sent the map M and a later EngineConfig() *)
(* is answered with an envelope whose data is M, EngineConfig returns cfg. *)
(***************************************************************************)
C7_ConfigRoundTrip ==
  (/\ engine = "kv2" /\ op = "EngineConfig" /\ lastConfig.done
   /\ Len(calls) = 1
   /\ reply.err = NoErr /\ ~reply.secret.isNil
   /\ reply.secret.Data = lastConfig.data) =>
    /\ err = NoErr
    /\ result = VStruct("SecretConfig", lastConfig.cfg)

(***************************************************************************)
(* C8: the mount path of a Client never changes once it is non-empty: it   *)
(* is the constructor's argument, or the package's default from the first  *)
(* defaulting on.                                                          *)
(***************************************************************************)
C8_MountPathStable ==
  [][/\ mountPath # <<>> => mountPath' = mountPath
     /\ mountPath' \in {ctorMount, defaultMountPath(engine)}]_vars

C8_Witness ==
  /\ ctorMount = <<>> /\ mountBefore = defaultMountPath(engine)
  /\ mountPath = mountBefore
  /\ op # "none" /\ args.path # <<>> /\ Len(calls) = 1

(***************************************************************************)
(* C9: when the call on the LogicalClient fails, the method returns that   *)
(* very error, the zero value of its result, and makes no further call.    *)
(***************************************************************************)
C9_TransportErrorPassedThrough ==
  (op # "none" /\ calls # <<>> /\ reply.err # NoErr) =>
    /\ err = reply.err
    /\ SameValue(result, ZeroResult(op))
    /\ Len(calls) = 1

C9_Witness ==
  /\ engine = "cubbyhole" /\ op = "ReadSecret"
  /\ Len(calls) = 1 /\ reply.err = ErrTransport /\ err = ErrTransport

(***************************************************************************)
(* C10 as stated: every method that is called makes exactly one call on    *)
(* the LogicalClient before it returns.                                    *)
(***************************************************************************)
C10_ExactlyOneCall == op # "none" => Len(calls) = 1

(***************************************************************************)
(* C10 as amended: every method that is called makes at most one call on   *)
(* the LogicalClient; it makes none exactly when it returns a validation   *)
(* error or the error of creating its LogicalClient.                       *)
(***************************************************************************)
C10_AtMostOneCall ==
  op # "none" =>
    /\ Len(calls) <= 1
    /\ Len(calls) = 0 <=> err \in ValidationErrors \cup {ErrNewClient}

C10_Witness ==
  /\ op = "DeleteSecret" /\ Len(calls) = 1 /\ err = ErrTransport

\* the methods of kv/v1 and kv/v2 that return what the LogicalClient answered
NoDataOps ==
  {"ReadSecret", "ListSecrets", "ReadSecretLatest", "ReadSecretVersion",
   "WriteSecretLatest", "WriteSecretVersion", "EngineConfig", "ReadSecretMetadata"}

(***************************************************************************)
(* C11: in kv/v1 and kv/v2, when the call on the LogicalClient succeeds    *)
(* without an envelope, or with an envelope without data, the method       *)
(* returns the zero value of its result and a nil error, never the         *)
(* PathError that cubbyhole returns for the same answer.                   *)
(***************************************************************************)
C11_NoDataIsZeroValue ==
  (/\ engine \in {"kv1", "kv2"} /\ op \in NoDataOps
   /\ Len(calls) = 1 /\ reply.err = NoErr
   /\ (reply.secret.isNil \/ DOMAIN reply.secret.Data = {})) =>
    /\ err = NoErr
    /\ err.kind # "PathError"
    /\ SameValue(result, ZeroResult(op))

C11_Witness ==
  /\ engine = "kv1" /\ op = "ReadSecret" /\ Len(calls) = 1
  /\ reply.err = NoErr /\ ~reply.secret.isNil /\ DOMAIN reply.secret.Data = {}
  /\ err = NoErr /\ result.type = "nil"

\* what the caller and the LogicalClient can tell of the method that returned
Observed ==
  [mountPath |-> mountPath, client |-> client, calls |-> calls,
   result |-> result, err |-> err]

ClientStates == {"nil", "injected", "own"}

(***************************************************************************)
(* C12: kv/v2 ReadSecretLatest(path) and ReadSecretVersion(path, -1) are   *)
(* observationally equal: what either is seen to do (its call, a plain     *)
(* Read of <mount>/data/<path> without query parameters, its result and    *)
(* its error) is what the other does on the same Client, path and answer.  *)
(***************************************************************************)
C12_LatestIsVersionMinusOne ==
  /\ (engine = "kv2" /\ op = "ReadSecretLatest") =>
       /\ \E c \in ClientStates : \E nc \in NewClientOutcomes(c) :
            Observed = ReadSecretVersionOutcome(mountBefore, c, args.path, -1, nc, reply)
       /\ \A i \in 1 .. Len(calls) :
            /\ calls[i].method = "Read"
            /\ DOMAIN calls[i].query = {}
            /\ calls[i].path = pathJoin(<<ExpectedMount, Seg_data, args.path>>)
  /\ (engine = "kv2" /\ op = "ReadSecretVersion" /\ args.version = -1) =>
       /\ \E c \in ClientStates : \E nc \in NewClientOutcomes(c) :
            Observed = ReadSecretLatestOutcome(mountBefore, c, args.path, nc, reply)
       /\ \A i \in 1 .. Len(calls) :
            /\ calls[i].method = "Read"
            /\ DOMAIN calls[i].query = {}
            /\ calls[i].path = pathJoin(<<ExpectedMount, Seg_data, args.path>>)

C12_Witness ==
  /\ engine = "kv2" /\ op = "ReadSecretLatest" /\ args.path # <<>>
  /\ Len(calls) = 1 /\ calls[1].method = "Read"
  /\ reply.err = NoErr /\ ~reply.secret.isNil
  /\ err = NoErr /\ ~SameValue(result, ZeroResult(op))

DataOps ==
  {"ReadSecretLatest", "ReadSecretVersion", "WriteSecretLatest", "WriteSecretVersion",
   "DeleteSecretLatest"}
MetadataOps ==
  {"ListSecrets", "ReadSecretMetadata", "WriteSecretMetadata", "DeleteSecretMetadata"}

\* the segment a kv/v2 method that does not use secretPath puts after the mount
ActionSegment(o) ==
  IF o \in ConfigOps THEN Seg_config
  ELSE IF o = "DeleteSecretVersion" THEN Seg_delete
  ELSE IF o = "UndeleteSecretVersion" THEN Seg_undelete
  ELSE Seg_destroy

(***************************************************************************)
(* C13: the path rule of kv/v2.  With a non-empty path, the reads, writes  *)
(* and DeleteSecretLatest call <mount>/data/<path>; ListSecrets,           *)
(* ReadSecretMetadata, WriteSecretMetadata and DeleteSecretMetadata call   *)
(* <mount>/metadata/<path>, the first two with List; only the engine       *)
(* configuration and the delete, undelete and destroy methods put another  *)
(* segment (their own) than data or metadata after the mount.              *)
(***************************************************************************)
C13_PathRule ==
  (engine = "kv2" /\ op # "none" /\ Len(calls) = 1) =>
    /\ op \in DataOps =>
         calls[1].path = pathJoin(<<ExpectedMount, Seg_data, args.path>>)
    /\ op \in MetadataOps =>
         calls[1].path = pathJoin(<<ExpectedMount, Seg_metadata, args.path>>)
    /\ op \in {"ListSecrets", "ReadSecretMetadata"} => calls[1].method = "List"
    /\ op \in DataOps \cup MetadataOps \cup ConfigOps \cup VersionActionOps
    /\ op \in ConfigOps \cup VersionActionOps =>
         /\ ActionSegment(op) \notin {Seg_data, Seg_metadata}
         /\ calls[1].path = pathJoin(<<mountBefore, ActionSegment(op), args.path>>)

C13_Witness ==
  /\ engine = "kv2" /\ op = "ReadSecretMetadata" /\ ctorMount = <<>>
  /\ args.path = <<"b", "/", ".", ".", "/", "a">>
  /\ Len(calls) = 1 /\ calls[1].method = "List"
  /\ calls[1].path = <<"/", "s", "e", "c", "r", "e", "t", "/",
                       "m", "e", "t", "a", "d", "a", "t", "a", "/", "a">>

(***************************************************************************)
(* C14: kv/v2 DeleteSecretVersion, UndeleteSecretVersion and               *)
(* DestroySecretVersion, called with at least one version, make exactly    *)
(* one call, a Write (never a Delete) to <mount>/delete/<path>,            *)
(* <mount>/undelete/<path>, <mount>/destroy/<path>, whose payload has the  *)
(* single key "versions" holding the caller's versions in their order.     *)
(***************************************************************************)
C14_VersionActionWrite ==
  (engine = "kv2" /\ op \in VersionActionOps /\ Len(args.versions) >= 1
     /\ client # "nil") =>
    /\ Len(calls) = 1
    /\ calls[1].method = "Write"
    /\ calls[1].path = pathJoin(<<ExpectedMount, ActionSegment(op), args.path>>)
    /\ DOMAIN calls[1].data.v = {"versions"}
    /\ calls[1].data.v["versions"] = VInts(args.versions)

\* the answer holds a list of strings under "keys"
HasKeys(data) ==
  /\ "keys" \in DOMAIN data
  /\ data["keys"].type = "[]interface{}"
  /\ \A i \in 1 .. Len(data["keys"].v) : data["keys"].v[i].type = "string"

(***************************************************************************)
(* C15: cubbyhole ListSecrets(path) with a non-empty path makes one List   *)
(* call at join(mount, path).  Answered with a list of strings under       *)
(* "keys", it returns those strings in the answer's order; answered        *)
(* without an envelope or with an envelope without data, it returns a      *)
(* PathError wrapping ErrNoSecretData whose path is the joined path, as    *)
(* cubbyhole ReadSecret does.                                              *)
(***************************************************************************)
C15_CubbyholeList ==
  (engine = "cubbyhole" /\ op = "ListSecrets" /\ args.path # <<>> /\ client # "nil") =>
    /\ Len(calls) = 1
    /\ calls[1].method = "List"
    /\ calls[1].path = pathJoin(<<ExpectedMount, args.path>>)
    /\ reply.err = NoErr =>
         IF reply.secret.isNil \/ DOMAIN reply.secret.Data = {}
           THEN /\ err.kind = "PathError"
                /\ err.msg = ErrNoSecretData.msg
                /\ err.op = "ListSecrets"
                /\ err.path = calls[1].path
                /\ result.type = "nil"
           ELSE HasKeys(reply.secret.Data) =>
                  /\ err = NoErr
                  /\ result.type = "[]string"
                  /\ Len(result.v) = Len(reply.secret.Data["keys"].v)
                  /\ \A i \in 1 .. Len(result.v) :
                       result.v[i] = reply.secret.Data["keys"].v[i].v

C15_Witness ==
  /\ engine = "cubbyhole" /\ op = "ListSecrets" /\ Len(calls) = 1
  /\ reply.err = NoErr /\ ~reply.secret.isNil
  /\ HasKeys(reply.secret.Data)
  /\ result.type = "[]string" /\ result.v = <<"b", "a">>

\* the goroutines that have left vaultClient with a LogicalClient of their own
Stored(g) == g \in Range(stores.client)

\* every caller tested c.client while no caller had assigned it, and saw nil
BothSawClientUnset ==
  \A g \in Callers : glocal[g].clientSeen = "nil" /\ glocal[g].clientSeenAt = 0

\* every caller tested c.mountPath while no caller had assigned it, and saw ""
BothSawMountUnset ==
  \A g \in Callers : glocal[g].mountSeen = <<>> /\ glocal[g].mountSeenAt = 0

(***************************************************************************)
(* C16: when two goroutines call a Client built with an empty mount path   *)
(* and without a LogicalClient, both may find c.client (and c.mountPath)   *)
(* unset before either assigns it; whenever they do and api.NewClient      *)
(* succeeds for both, two LogicalClients are built and, once both have     *)
(* assigned c.client, it holds the one assigned second: the first          *)
(* assignment is overwritten.                                              *)
(***************************************************************************)
C16_FirstUseRace ==
  (/\ ctorMount = <<>>
   /\ BothSawClientUnset
   /\ \A g \in Callers : gpc[g] \in {"vc_return", "call", "done", "panicked"}
                            /\ glocal[g].err = NoErr) =>
    /\ Len(handles) = 2
    /\ HandleOf(handles[1]) # HandleOf(handles[2])
    /\ Len(stores.client) = 2
    /\ client = HandleOf(stores.client[2])
    /\ client # HandleOf(stores.client[1])

C16_Witness ==
  /\ ctorMount = <<>>
  /\ BothSawMountUnset /\ BothSawClientUnset
  /\ Len(stores.mountPath) = 2
  /\ Len(handles) = 2 /\ Len(stores.client) = 2
  /\ client = HandleOf(stores.client[2])
  /\ \A g \in Callers : gpc[g] = "done" /\ glocal[g].err = NoErr
  /\ Len(calls) = 2

\* the path the method would hand to the LogicalClient on a Client that
\* NewClient(ctorMount, _) has just built
FreshPath ==
  IF engine = "kv2" /\ op \in ConfigOps \cup VersionActionOps
    THEN pathJoin(<<ctorMount, ActionSegment(op), args.path>>)
  ELSE IF engine = "kv2" THEN kv2_secretPath(ctorMount, args.path, op \in MetadataOps).path
  ELSE secretPathOf(engine, ctorMount, args.path).path

(***************************************************************************)
(* C17: the path a method hands to the LogicalClient depends only on the   *)
(* mount argument of NewClient and on the method's own arguments, not on   *)
(* the methods called before on the same Client: it is the path the same   *)
(* call issues on a Client fresh from NewClient with that mount argument.  *)
(***************************************************************************)
C17_HistoryIndependentPath ==
  (op # "none" /\ Len(calls) = 1) => calls[1].path = FreshPath
====
